---- MODULE Spec2Model ----
(***************************************************************************)
(* State-machine model of src/src/core/claude-code-advanced.ts:            *)
(*   ClaudeSessionPool  (session pool + p-queue dispatcher)                *)
(*   CodeStreamHandler  (reconnecting WebSocket client)                    *)
(*   RateLimitHandler   (per-endpoint request window)                      *)
(* and of the batch_process tool of the MCP server (src/unnamed/part_002), *)
(* which drives a ClaudeSessionPool.                                       *)
(* Each class has its own specification (PoolSpec, StreamSpec, RateSpec);  *)
(* the variables of the other classes stay unchanged under it.             *)
(***************************************************************************)
EXTENDS Integers, Sequences, FiniteSets, TLC

\* ------------------------------------------------------------------------
\* Bounds of the model
\* ------------------------------------------------------------------------
\* constructor argument maxSessions (default 5)
MaxSessions == 2
\* constructor argument maxConcurrency (default 3)
MaxConcurrency == 2
\* number of executeWithSession calls made by the environment
NumTasks == 3
\* number of callers that use acquireSession / releaseSession directly
NumClients == 2
\* number of releaseSession calls made with an id the caller does not hold
MaxStray == 1
\* number of initialize() calls
MaxInitCalls == 2

Tasks == 1..NumTasks
Clients == (NumTasks + 1)..(NumTasks + NumClients)
Holders == Tasks \cup Clients
\* `session-${i}` is modelled by the integer i
SessionIds == 0..(MaxSessions - 1)
NoSession == -1

\* State of ClaudeSessionPool
VARIABLES
    sessions,            \* Map<string, BrowserContext>: id -> "absent" | "live" | "closed"
    availableSessions,   \* string[]
    busySessions,        \* Set<string>
    initIdx,             \* loop counter i of initialize()
    closePc,             \* closeAll(): "idle", "closing", "done"
    closeLeft,           \* contexts closeAll() has still to close
    queue,               \* PQueue: queued run closures (FIFO)
    pendingCount,        \* PQueue: number of run closures in flight
    taskPc,              \* position of each executeWithSession call
    clientPc,            \* position of each direct caller
    held,                \* sessionId each task / direct caller got from acquireSession
    strayReleases,       \* number of releaseSession calls by non-holders so far
    initCalls,           \* number of initialize() calls so far
    maxSessions,         \* this.maxSessions
    maxConcurrency,      \* this.maxConcurrency, the concurrency of this.queue
    sessionPool,         \* server: this.sessionPool, "null" or "created"
    batchPc,             \* server: position of the handleBatchProcess call
    batchTasks,          \* server: args.tasks.length of that call
    batchMaxConcurrency  \* server: the local maxConcurrency of that call

\* State of the MCP server's batch_process handler
serverVars == <<sessionPool, batchPc, batchTasks, batchMaxConcurrency>>

poolVars == <<sessions, availableSessions, busySessions, initIdx, closePc,
              closeLeft, queue, pendingCount, taskPc, clientPc, held,
              strayReleases,
                   initCalls, maxSessions, maxConcurrency, serverVars>>

\* State of CodeStreamHandler and of its transport (the ws library)
VARIABLES
    ws,                  \* this.ws: index of the current WebSocket, 0 = undefined
    sock,                \* state of every WebSocket created by connect()
    nSock,               \* number of WebSockets created so far
    messageBuffer,       \* this.messageBuffer
    reconnectAttempts,   \* this.reconnectAttempts
    timers,              \* reconnect() calls sleeping before their connect()
    nSent,               \* number of send() calls so far; message k is the k-th sent
    written,             \* messages handed to a WebSocket that was OPEN, in order
    lost,                \* messages handed to a WebSocket that was not OPEN
    reports,             \* times 'Max reconnection attempts reached' was reported
    closeCalled,         \* close() has been called
    lastDelay            \* delay of the latest reconnect() that set a timer, 0 if none

streamVars == <<ws, sock, nSock, messageBuffer, reconnectAttempts, timers,
                nSent, written, lost, reports, closeCalled, lastDelay>>

\* State of RateLimitHandler and the clock read by Date.now()
VARIABLES
    requestCounts,       \* this.requestCounts
    resetTimes,          \* this.resetTimes
    now,                 \* Date.now()
    lastThrottle,        \* <<endpoint, result>> of the last shouldThrottle call
    winEnd,              \* history: end of the window the caller is in, per endpoint
    winCount,            \* history: recordRequest calls in that window (counted up to the limit)
    limitCalls           \* history: <<endpoint, limit>> of the latest getRateLimit calls

rateVars == <<requestCounts, resetTimes, now, lastThrottle, winEnd, winCount,
              limitCalls>>

\* State of RateLimitHandler.handleRateLimitResponse and of its callers
VARIABLES
    backoffMultiplier,   \* this.backoffMultiplier
    callPc,              \* position of each handleRateLimitResponse call
    callResp,            \* response headers each call was given
    callMult,            \* history: multiplier each call applied to its wait
    callWait,            \* waitTime each call sleeps for
    callAfterSuccess,    \* history: a request succeeded since the previous call
    successSince         \* history: a request succeeded since the last call

backoffVars == <<backoffMultiplier, callPc, callResp, callMult, callWait,
                 callAfterSuccess, successSince>>

\* State of the callers of ClaudeCodeProxy.request
VARIABLES
    reqPc,               \* position of each request() call
    reqEndpoint,         \* endpoint each request() call was given
    proxySent,           \* history: requests handed to fetch, per endpoint
    proxyRecorded,       \* history: recordRequest calls made by request(), per endpoint
    reqThrottled,        \* history: what shouldThrottle returned to each request() call
    proxyPassedSent      \* history: requests handed to fetch whose shouldThrottle returned false

proxyVars == <<reqPc, reqEndpoint, proxySent, proxyRecorded, reqThrottled,
               proxyPassedSent>>

vars == <<poolVars, streamVars, rateVars, backoffVars, proxyVars>>

Range(s) == {s[i] : i \in 1..Len(s)}

\* ------------------------------------------------------------------------
\* ClaudeSessionPool
\* ------------------------------------------------------------------------
PoolInit ==
    /\ sessions = [i \in SessionIds |-> "absent"]
    /\ availableSessions = <<>>
    /\ busySessions = {}
    /\ initIdx = 0
    /\ closePc = "idle"
    /\ closeLeft = {}
    /\ queue = <<>>
    /\ pendingCount = 0
    /\ taskPc = [t \in Tasks |-> "new"]
    /\ clientPc = [c \in Clients |-> "idle"]
    /\ held = [h \in Holders |-> NoSession]
    /\ strayReleases = 0
    /\ initCalls = 1
    /\ maxSessions = MaxSessions
    /\ maxConcurrency = MaxConcurrency
    /\ sessionPool = "null"
    /\ batchPc = "idle"
    /\ batchTasks = 0
    /\ batchMaxConcurrency = 0

\* Array.prototype.pop(): the last element and the remaining array
PopId(av) == av[Len(av)]
PopRest(av) == SubSeq(av, 1, Len(av) - 1)

\* releaseSession(sessionId): busySessions.delete, availableSessions.push
ReleaseBusy(busy, id) == busy \ {id}
ReleaseAvail(av, id) == Append(av, id)

\* One iteration of the loop of initialize(): the context was created,
\* sessions.set(sessionId, context); availableSessions.push(sessionId)
InitializeStep ==
    /\ initIdx < maxSessions
    /\ closePc = "idle"
    /\ sessions' = [sessions EXCEPT ![initIdx] = "live"]
    /\ availableSessions' = Append(availableSessions, initIdx)
    /\ initIdx' = initIdx + 1
    /\ UNCHANGED <<busySessions, closePc, closeLeft, queue, pendingCount,
                   taskPc, clientPc, held, strayReleases,
                   initCalls, maxSessions, maxConcurrency, serverVars>>
    /\ UNCHANGED <<streamVars, rateVars, backoffVars, proxyVars>>

\* initialize(browser) is called again after an earlier call has returned
InitializeAgain ==
    /\ initIdx = maxSessions
    /\ initCalls < MaxInitCalls
    /\ closePc = "idle"
    /\ initCalls' = initCalls + 1
    /\ initIdx' = 0
    /\ UNCHANGED <<sessions, availableSessions, busySessions, closePc, closeLeft,
                   queue, pendingCount, taskPc, clientPc, held, strayReleases,
                   maxSessions, maxConcurrency, serverVars>>
    /\ UNCHANGED <<streamVars, rateVars, backoffVars, proxyVars>>

\* The synchronous part of acquireSession() run by holder h once the loop
\* condition is false: pop an id, add it to busySessions, return it.
\* basePc is the pc function the caller has already updated.
AcquireNow(h) ==
    /\ availableSessions # <<>>
    /\ availableSessions' = PopRest(availableSessions)
    /\ busySessions' = busySessions \cup {PopId(availableSessions)}
    /\ held' = [held EXCEPT ![h] = PopId(availableSessions)]

\* PQueue run closure of task h: fn() is called, which runs acquireSession()
\* up to its first await.
RunTask(h, basePc) ==
    IF availableSessions # <<>>
    THEN /\ AcquireNow(h)
         /\ taskPc' = [basePc EXCEPT ![h] = "running"]
    ELSE /\ taskPc' = [basePc EXCEPT ![h] = "acquiring"]
         /\ UNCHANGED <<availableSessions, busySessions, held>>

\* Mutant of CanStart: the queue admits every closure at once
CanStart_Unbounded(pending) == TRUE

\* PQueue admission test of _tryToStartAnother
CanStart(pending) == pending < maxConcurrency

\* Mutant of Submit: the closure is enqueued at the front of the queue
Submit_Front(t) ==
    /\ taskPc[t] = "new"
    /\ LET q == <<t>> \o queue IN
       IF CanStart(pendingCount)
       THEN /\ queue' = Tail(q)
            /\ pendingCount' = pendingCount + 1
            /\ RunTask(Head(q), [taskPc EXCEPT ![t] = "queued"])
       ELSE /\ queue' = q
            /\ taskPc' = [taskPc EXCEPT ![t] = "queued"]
            /\ UNCHANGED <<pendingCount, availableSessions, busySessions, held>>
    /\ UNCHANGED <<sessions, initIdx, closePc, closeLeft, clientPc, strayReleases,
                   initCalls, maxSessions, maxConcurrency, serverVars>>
    /\ UNCHANGED <<streamVars, rateVars, backoffVars, proxyVars>>

\* executeWithSession(task): queue.add enqueues the run closure and calls
\* _tryToStartAnother, which starts the head of the queue if a slot is free.
Submit(t) ==
    /\ taskPc[t] = "new"
    /\ LET q == Append(queue, t) IN
       IF CanStart(pendingCount)
       THEN /\ queue' = Tail(q)
            /\ pendingCount' = pendingCount + 1
            /\ RunTask(Head(q), [taskPc EXCEPT ![t] = "queued"])
       ELSE /\ queue' = q
            /\ taskPc' = [taskPc EXCEPT ![t] = "queued"]
            /\ UNCHANGED <<pendingCount, availableSessions, busySessions, held>>
    /\ UNCHANGED <<sessions, initIdx, closePc, closeLeft, clientPc, strayReleases,
                   initCalls, maxSessions, maxConcurrency, serverVars>>
    /\ UNCHANGED <<streamVars, rateVars, backoffVars, proxyVars>>

\* acquireSession() of task t wakes from its 100 ms sleep and finds a session
PollAcquire(t) ==
    /\ taskPc[t] = "acquiring"
    /\ AcquireNow(t)
    /\ taskPc' = [taskPc EXCEPT ![t] = "running"]
    /\ UNCHANGED <<sessions, initIdx, closePc, closeLeft, queue, pendingCount,
                   clientPc, strayReleases,
                   initCalls, maxSessions, maxConcurrency, serverVars>>
    /\ UNCHANGED <<streamVars, rateVars, backoffVars, proxyVars>>

\* Mutant of FinallyRelease: the id is not put back into availableSessions
FinallyRelease_NoPush(t) ==
    /\ busySessions' = ReleaseBusy(busySessions, held[t])
    /\ availableSessions' = availableSessions
    /\ held' = [held EXCEPT ![t] = NoSession]

\* The finally block of executeWithSession
FinallyRelease(t) ==
    /\ busySessions' = ReleaseBusy(busySessions, held[t])
    /\ availableSessions' = ReleaseAvail(availableSessions, held[t])
    /\ held' = [held EXCEPT ![t] = NoSession]

\* The task body returns: finally releases, the closure returns the result
BodyReturn(t) ==
    /\ taskPc[t] = "running"
    /\ FinallyRelease(t)
    /\ taskPc' = [taskPc EXCEPT ![t] = "returned"]
    /\ UNCHANGED <<sessions, initIdx, closePc, closeLeft, queue, pendingCount,
                   clientPc, strayReleases,
                   initCalls, maxSessions, maxConcurrency, serverVars>>
    /\ UNCHANGED <<streamVars, rateVars, backoffVars, proxyVars>>

\* Mutant of BodyThrow: the release sits after the await instead of in finally
BodyThrow_SkipRelease(t) ==
    /\ taskPc[t] = "running"
    /\ taskPc' = [taskPc EXCEPT ![t] = "thrown"]
    /\ UNCHANGED <<sessions, availableSessions, busySessions, held, initIdx,
                   closePc, closeLeft, queue, pendingCount, clientPc,
                   strayReleases,
                   initCalls, maxSessions, maxConcurrency, serverVars>>
    /\ UNCHANGED <<streamVars, rateVars, backoffVars, proxyVars>>

\* Mutant of BodyThrow: the failure also drops the handles of the other tasks
BodyThrow_DropAll(t) ==
    /\ taskPc[t] = "running"
    /\ busySessions' = ReleaseBusy(busySessions, held[t])
    /\ availableSessions' = ReleaseAvail(availableSessions, held[t])
    /\ held' = [h \in DOMAIN held |-> NoSession]
    /\ taskPc' = [taskPc EXCEPT ![t] = "thrown"]
    /\ UNCHANGED <<sessions, initIdx, closePc, closeLeft, queue, pendingCount,
                   clientPc, strayReleases, initCalls, maxSessions, maxConcurrency, serverVars>>
    /\ UNCHANGED <<streamVars, rateVars, backoffVars, proxyVars>>

\* The task body throws: finally releases, the closure rethrows
BodyThrow(t) ==
    /\ taskPc[t] = "running"
    /\ FinallyRelease(t)
    /\ taskPc' = [taskPc EXCEPT ![t] = "thrown"]
    /\ UNCHANGED <<sessions, initIdx, closePc, closeLeft, queue, pendingCount,
                   clientPc, strayReleases,
                   initCalls, maxSessions, maxConcurrency, serverVars>>
    /\ UNCHANGED <<streamVars, rateVars, backoffVars, proxyVars>>

\* PQueue: the run closure settles the promise of executeWithSession, then
\* _next() frees the slot and starts the head of the queue.
Settle(t) ==
    /\ taskPc[t] \in {"returned", "thrown"}
    /\ LET settled == [taskPc EXCEPT
                         ![t] = IF taskPc[t] = "returned" THEN "resolved"
                                                          ELSE "rejected"] IN
       IF queue # <<>> /\ CanStart(pendingCount - 1)
       THEN /\ queue' = Tail(queue)
            /\ pendingCount' = pendingCount
            /\ RunTask(Head(queue), settled)
       ELSE /\ pendingCount' = pendingCount - 1
            /\ taskPc' = settled
            /\ UNCHANGED <<queue, availableSessions, busySessions, held>>
    /\ UNCHANGED <<sessions, initIdx, closePc, closeLeft, clientPc, strayReleases,
                   initCalls, maxSessions, maxConcurrency, serverVars>>
    /\ UNCHANGED <<streamVars, rateVars, backoffVars, proxyVars>>

\* A direct caller calls acquireSession()
ClientAcquire(c) ==
    /\ clientPc[c] = "idle"
    /\ IF availableSessions # <<>>
       THEN /\ AcquireNow(c)
            /\ clientPc' = [clientPc EXCEPT ![c] = "holding"]
       ELSE /\ clientPc' = [clientPc EXCEPT ![c] = "waiting"]
            /\ UNCHANGED <<availableSessions, busySessions, held>>
    /\ UNCHANGED <<sessions, initIdx, closePc, closeLeft, queue, pendingCount,
                   taskPc, strayReleases,
                   initCalls, maxSessions, maxConcurrency, serverVars>>
    /\ UNCHANGED <<streamVars, rateVars, backoffVars, proxyVars>>

\* acquireSession() of a direct caller wakes from its sleep and finds a session
ClientPoll(c) ==
    /\ clientPc[c] = "waiting"
    /\ AcquireNow(c)
    /\ clientPc' = [clientPc EXCEPT ![c] = "holding"]
    /\ UNCHANGED <<sessions, initIdx, closePc, closeLeft, queue, pendingCount,
                   taskPc, strayReleases,
                   initCalls, maxSessions, maxConcurrency, serverVars>>
    /\ UNCHANGED <<streamVars, rateVars, backoffVars, proxyVars>>

\* The direct caller releases the session it holds: releaseSession(held[c])
ClientRelease(c) ==
    /\ clientPc[c] = "holding"
    /\ busySessions' = ReleaseBusy(busySessions, held[c])
    /\ availableSessions' = ReleaseAvail(availableSessions, held[c])
    /\ held' = [held EXCEPT ![c] = NoSession]
    /\ clientPc' = [clientPc EXCEPT ![c] = "idle"]
    /\ UNCHANGED <<sessions, initIdx, closePc, closeLeft, queue, pendingCount,
                   taskPc, strayReleases,
                   initCalls, maxSessions, maxConcurrency, serverVars>>
    /\ UNCHANGED <<streamVars, rateVars, backoffVars, proxyVars>>

\* releaseSession(id) called by someone who does not hold id (a second
\* release, or an id that was never acquired): the method has no guard.
StrayRelease(id) ==
    /\ strayReleases < MaxStray
    /\ sessions[id] # "absent"
    /\ busySessions' = ReleaseBusy(busySessions, id)
    /\ availableSessions' = ReleaseAvail(availableSessions, id)
    /\ strayReleases' = strayReleases + 1
    /\ UNCHANGED <<sessions, initIdx, closePc, closeLeft, queue, pendingCount,
                   taskPc, clientPc, held, initCalls, maxSessions, maxConcurrency, serverVars>>
    /\ UNCHANGED <<streamVars, rateVars, backoffVars, proxyVars>>

\* closeAll() is called (after initialize() has returned) and closes the
\* first context; the remaining contexts are closed one await at a time.
CloseAllStep ==
    /\ initIdx = MaxSessions
    /\ closePc \in {"idle", "closing"}
    /\ LET left == IF closePc = "idle" THEN SessionIds ELSE closeLeft IN
       /\ left # {}
       /\ LET i == CHOOSE j \in left : \A k \in left : j <= k IN
          /\ sessions' = [sessions EXCEPT ![i] = "closed"]
          /\ closeLeft' = left \ {i}
          /\ closePc' = "closing"
    /\ UNCHANGED <<availableSessions, busySessions, initIdx, queue, pendingCount,
                   taskPc, clientPc, held, strayReleases,
                   initCalls, maxSessions, maxConcurrency, serverVars>>
    /\ UNCHANGED <<streamVars, rateVars, backoffVars, proxyVars>>

\* closeAll() after its loop: sessions.clear(), availableSessions = [],
\* busySessions.clear()
CloseAllFinish ==
    /\ closePc = "closing"
    /\ closeLeft = {}
    /\ sessions' = [i \in SessionIds |-> "absent"]
    /\ availableSessions' = <<>>
    /\ busySessions' = {}
    /\ closePc' = "done"
    /\ UNCHANGED <<initIdx, closeLeft, queue, pendingCount, taskPc, clientPc,
                   held, strayReleases,
                   initCalls, maxSessions, maxConcurrency, serverVars>>
    /\ UNCHANGED <<streamVars, rateVars, backoffVars, proxyVars>>

PoolNext ==
    \/ InitializeStep
    \/ \E t \in Tasks : Submit(t)
    \/ \E t \in Tasks : PollAcquire(t)
    \/ \E t \in Tasks : BodyReturn(t)
    \/ \E t \in Tasks : BodyThrow(t)
    \/ \E t \in Tasks : Settle(t)
    \/ \E c \in Clients : ClientAcquire(c)
    \/ \E c \in Clients : ClientPoll(c)
    \/ \E c \in Clients : ClientRelease(c)
    \/ \E id \in SessionIds : StrayRelease(id)
    \/ CloseAllStep
    \/ CloseAllFinish


\* ------------------------------------------------------------------------
\* The batch_process tool of the MCP server (src/unnamed/part_002), which
\* owns a ClaudeSessionPool
\* ------------------------------------------------------------------------
\* config.maxSessions: parseInt(process.env.MCP_MAX_SESSIONS || '5')
ConfigMaxSessions == 5
\* `args.maxConcurrency || 3`
DefaultBatchConcurrency == 3
\* largest args.tasks array of a batch_process call
NumBatchTasks == 4
\* largest args.maxConcurrency of a batch_process call; 0 is an absent argument
MaxBatchArg == 3

BatchTasks == 1..NumBatchTasks

\* handleInitialize, the part that makes the pool: new ClaudeSessionPool(
\* config.maxSessions, floor(config.maxSessions / 2)) and the call of
\* initialize(), whose loop then runs as InitializeStep
HandleInitialize ==
    /\ sessionPool = "null"
    /\ sessionPool' = "created"
    /\ maxSessions' = ConfigMaxSessions
    /\ maxConcurrency' = ConfigMaxSessions \div 2
    /\ initCalls' = initCalls + 1
    /\ UNCHANGED <<sessions, availableSessions, busySessions, initIdx, closePc,
                   closeLeft, queue, pendingCount, taskPc, clientPc, held,
                   strayReleases, batchPc, batchTasks, batchMaxConcurrency>>
    /\ UNCHANGED <<streamVars, rateVars, backoffVars, proxyVars>>

\* One executeWithSession(task) call as a function of the pool's state:
\* queue.add enqueues the run closure of t and starts the head of the queue
\* if a slot is free; the started closure runs acquireSession to its first
\* await.
ExecuteWithSession(st, t) ==
    LET q == Append(st.queue, t)
        pc == [st.taskPc EXCEPT ![t] = "queued"]
        h == Head(q)
    IN IF CanStart(st.pendingCount)
       THEN IF st.availableSessions # <<>>
            THEN [queue |-> Tail(q),
                  pendingCount |-> st.pendingCount + 1,
                  availableSessions |-> PopRest(st.availableSessions),
                  busySessions |-> st.busySessions \cup {PopId(st.availableSessions)},
                  held |-> [st.held EXCEPT ![h] = PopId(st.availableSessions)],
                  taskPc |-> [pc EXCEPT ![h] = "running"]]
            ELSE [st EXCEPT !.queue = Tail(q),
                            !.pendingCount = st.pendingCount + 1,
                            !.taskPc = [pc EXCEPT ![h] = "acquiring"]]
       ELSE [st EXCEPT !.queue = q, !.taskPc = pc]

\* tasks.map(task => this.sessionPool.executeWithSession(...)) over the
\* tasks t..n, in array order and without an await in between
RECURSIVE MapTasks(_, _, _)
MapTasks(st, t, n) ==
    IF t > n THEN st ELSE MapTasks(ExecuteWithSession(st, t), t + 1, n)

\* handleBatchProcess(args) up to its first await: args.tasks has n entries,
\* args.parallel is parallel, args.maxConcurrency is m (0: absent)
HandleBatchProcess(n, parallel, m) ==
    /\ batchPc = "idle"
    /\ IF sessionPool = "null"
       THEN /\ batchPc' = "rejected"
            /\ UNCHANGED <<batchTasks, batchMaxConcurrency, queue, pendingCount,
                           availableSessions, busySessions, held, taskPc>>
       ELSE /\ batchTasks' = n
            /\ batchMaxConcurrency' = IF m = 0 THEN DefaultBatchConcurrency ELSE m
            /\ IF parallel
               THEN LET st == MapTasks([queue |-> queue,
                                        pendingCount |-> pendingCount,
                                        availableSessions |-> availableSessions,
                                        busySessions |-> busySessions,
                                        held |-> held,
                                        taskPc |-> taskPc], 1, n) IN
                    /\ batchPc' = "parallel"
                    /\ queue' = st.queue
                    /\ pendingCount' = st.pendingCount
                    /\ availableSessions' = st.availableSessions
                    /\ busySessions' = st.busySessions
                    /\ held' = st.held
                    /\ taskPc' = st.taskPc
               ELSE /\ batchPc' = IF n = 0 THEN "done" ELSE "sequential"
                    /\ taskPc' = IF n = 0 THEN taskPc
                                 ELSE [taskPc EXCEPT ![1] = "single"]
                    /\ UNCHANGED <<queue, pendingCount, availableSessions,
                                   busySessions, held>>
    /\ UNCHANGED <<sessions, initIdx, closePc, closeLeft, clientPc,
                   strayReleases, initCalls, maxSessions, maxConcurrency,
                   sessionPool>>
    /\ UNCHANGED <<streamVars, rateVars, backoffVars, proxyVars>>

\* Sequential branch: processSingleTask(task) of task t returns, the result
\* is pushed and the loop goes on to the next task or to the return
SingleReturn(t) ==
    /\ batchPc = "sequential"
    /\ taskPc[t] = "single"
    /\ IF t < batchTasks
       THEN /\ taskPc' = [taskPc EXCEPT ![t] = "resolved", ![t + 1] = "single"]
            /\ UNCHANGED batchPc
       ELSE /\ taskPc' = [taskPc EXCEPT ![t] = "resolved"]
            /\ batchPc' = "done"
    /\ UNCHANGED <<sessions, availableSessions, busySessions, initIdx, closePc,
                   closeLeft, queue, pendingCount, clientPc, held,
                   strayReleases, initCalls, maxSessions, maxConcurrency,
                   sessionPool, batchTasks, batchMaxConcurrency>>
    /\ UNCHANGED <<streamVars, rateVars, backoffVars, proxyVars>>

\* Sequential branch: processSingleTask(task) of task t throws, which ends
\* the loop and rejects the call
SingleThrow(t) ==
    /\ batchPc = "sequential"
    /\ taskPc[t] = "single"
    /\ taskPc' = [taskPc EXCEPT ![t] = "rejected"]
    /\ batchPc' = "rejected"
    /\ UNCHANGED <<sessions, availableSessions, busySessions, initIdx, closePc,
                   closeLeft, queue, pendingCount, clientPc, held,
                   strayReleases, initCalls, maxSessions, maxConcurrency,
                   sessionPool, batchTasks, batchMaxConcurrency>>
    /\ UNCHANGED <<streamVars, rateVars, backoffVars, proxyVars>>

\* Parallel branch: `await Promise.all(promises)` settles, rejected by the
\* first rejected task or resolved once every task is resolved
PromiseAll ==
    /\ batchPc = "parallel"
    /\ IF \E t \in 1..batchTasks : taskPc[t] = "rejected"
       THEN batchPc' = "rejected"
       ELSE /\ \A t \in 1..batchTasks : taskPc[t] = "resolved"
            /\ batchPc' = "done"
    /\ UNCHANGED <<sessions, availableSessions, busySessions, initIdx, closePc,
                   closeLeft, queue, pendingCount, taskPc, clientPc, held,
                   strayReleases, initCalls, maxSessions, maxConcurrency,
                   sessionPool, batchTasks, batchMaxConcurrency>>
    /\ UNCHANGED <<streamVars, rateVars, backoffVars, proxyVars>>

ServerNext ==
    \/ HandleInitialize
    \/ InitializeStep
    \/ \E n \in 0..NumBatchTasks, parallel \in BOOLEAN, m \in 0..MaxBatchArg :
          HandleBatchProcess(n, parallel, m)
    \/ \E t \in BatchTasks : PollAcquire(t)
    \/ \E t \in BatchTasks : BodyReturn(t)
    \/ \E t \in BatchTasks : BodyThrow(t)
    \/ \E t \in BatchTasks : Settle(t)
    \/ \E t \in BatchTasks : SingleReturn(t)
    \/ \E t \in BatchTasks : SingleThrow(t)
    \/ PromiseAll

\* ------------------------------------------------------------------------
\* CodeStreamHandler
\* ------------------------------------------------------------------------
\* number of WebSockets connect() may create
MaxSockets == 4
\* number of send() calls
MaxMsgs == 2
\* reconnect(): if (this.reconnectAttempts >= 5)
MaxReconnectAttempts == 5
\* reconnect(): Math.min(1000 * Math.pow(2, ...), 30000)
BaseDelayMs == 1000
MaxDelayMs == 30000

SockIds == 1..MaxSockets

\* readyState of a WebSocket of the ws library:
\*   "connecting" CONNECTING; "open" OPEN;
\*   "aborted"    CLOSING, 'error' and then 'close' still to be emitted;
\*   "closing"    CLOSING, 'close' still to be emitted;
\*   "closed"     CLOSED
IsOpen(s) == s # 0 /\ sock[s] = "open"

StreamInit ==
    /\ ws = 0
    /\ sock = [s \in SockIds |-> "none"]
    /\ nSock = 0
    /\ messageBuffer = <<>>
    /\ reconnectAttempts = 0
    /\ timers = 0
    /\ nSent = 0
    /\ written = <<>>
    /\ lost = {}
    /\ reports = 0
    /\ closeCalled = FALSE
    /\ lastDelay = 0

\* connect(): this.ws = new WebSocket(...); the handlers are registered
ConnectNow ==
    /\ nSock < MaxSockets
    /\ nSock' = nSock + 1
    /\ ws' = nSock + 1

\* The caller's first connect(sessionId, token)
UserConnect ==
    /\ nSock = 0
    /\ ~closeCalled
    /\ ConnectNow
    /\ sock' = [sock EXCEPT ![nSock + 1] = "connecting"]
    /\ UNCHANGED <<messageBuffer, reconnectAttempts, timers, nSent, written,
                   lost, reports, closeCalled>>
    /\ UNCHANGED lastDelay
    /\ UNCHANGED <<poolVars, rateVars, backoffVars, proxyVars>>

\* send(message): written at once when this.ws is OPEN, buffered otherwise
Send ==
    /\ nSent < MaxMsgs
    /\ nSent' = nSent + 1
    /\ IF IsOpen(ws)
       THEN /\ written' = Append(written, nSent + 1)
            /\ UNCHANGED messageBuffer
       ELSE /\ messageBuffer' = Append(messageBuffer, nSent + 1)
            /\ UNCHANGED written
    /\ UNCHANGED <<ws, sock, nSock, reconnectAttempts, timers, lost, reports,
                   closeCalled>>
    /\ UNCHANGED lastDelay
    /\ UNCHANGED <<poolVars, rateVars, backoffVars, proxyVars>>

\* Mutant of FlushMessageBuffer: the buffer is emptied from its end
FlushMessageBuffer_Lifo(s, throws) ==
    IF messageBuffer = <<>>
    THEN UNCHANGED <<messageBuffer, written, lost>>
    ELSE IF ws = s \/ sock[ws] = "open"
    THEN /\ written' = written \o [i \in 1..Len(messageBuffer) |->
                                     messageBuffer[Len(messageBuffer) + 1 - i]]
         /\ messageBuffer' = <<>>
         /\ UNCHANGED lost
    ELSE IF sock[ws] = "connecting" \/ throws
    THEN /\ lost' = lost \cup {messageBuffer[Len(messageBuffer)]}
         /\ messageBuffer' = SubSeq(messageBuffer, 1, Len(messageBuffer) - 1)
         /\ UNCHANGED written
    ELSE /\ lost' = lost \cup Range(messageBuffer)
         /\ messageBuffer' = <<>>
         /\ UNCHANGED written

\* flushMessageBuffer() when the 'open' handler of socket s runs.  Every
\* message is shifted out and handed to this.ws, which need not be s:
\*   this.ws OPEN        the message is written;
\*   this.ws CONNECTING  WebSocket.send throws, the loop ends;
\*   this.ws CLOSING or CLOSED  WebSocket.send throws (ws up to 6) or drops
\*                       the message without a callback (ws 7 and later).
FlushMessageBuffer(s, throws) ==
    IF messageBuffer = <<>>
    THEN UNCHANGED <<messageBuffer, written, lost>>
    ELSE IF ws = s \/ sock[ws] = "open"
    THEN /\ written' = written \o messageBuffer
         /\ messageBuffer' = <<>>
         /\ UNCHANGED lost
    ELSE IF sock[ws] = "connecting" \/ throws
    THEN /\ lost' = lost \cup {Head(messageBuffer)}
         /\ messageBuffer' = Tail(messageBuffer)
         /\ UNCHANGED written
    ELSE /\ lost' = lost \cup Range(messageBuffer)
         /\ messageBuffer' = <<>>
         /\ UNCHANGED written

\* Mutant of SockOpen: the attempt counter is left as it is
SockOpen_NoReset(s) ==
    /\ sock[s] = "connecting"
    /\ sock' = [sock EXCEPT ![s] = "open"]
    /\ reconnectAttempts' = reconnectAttempts
    /\ \E throws \in BOOLEAN : FlushMessageBuffer(s, throws)
    /\ UNCHANGED <<ws, nSock, timers, nSent, reports, closeCalled>>
    /\ UNCHANGED lastDelay
    /\ UNCHANGED <<poolVars, rateVars, backoffVars, proxyVars>>

\* ws.on('open'): reconnectAttempts = 0; flushMessageBuffer()
SockOpen(s) ==
    /\ sock[s] = "connecting"
    /\ sock' = [sock EXCEPT ![s] = "open"]
    /\ reconnectAttempts' = 0
    /\ \E throws \in BOOLEAN : FlushMessageBuffer(s, throws)
    /\ UNCHANGED <<ws, nSock, timers, nSent, reports, closeCalled>>
    /\ UNCHANGED lastDelay
    /\ UNCHANGED <<poolVars, rateVars, backoffVars, proxyVars>>

\* Mutant of ReconnectDelay: the delay is not capped
ReconnectDelay_NoCap(attempts) == BaseDelayMs * 2^attempts

\* Math.min(1000 * Math.pow(2, this.reconnectAttempts), 30000)
ReconnectDelay(attempts) ==
    IF BaseDelayMs * 2^attempts < MaxDelayMs
    THEN BaseDelayMs * 2^attempts
    ELSE MaxDelayMs

\* Mutant of Reconnect: the ceiling is not looked at
Reconnect_NoCeiling ==
    /\ reconnectAttempts' = reconnectAttempts + 1
    /\ timers' = timers + 1
    /\ lastDelay' = ReconnectDelay(reconnectAttempts')
    /\ UNCHANGED reports

\* reconnect() up to its await: give up at the ceiling, else count the
\* attempt and sleep before connect()
Reconnect ==
    IF reconnectAttempts >= MaxReconnectAttempts
    THEN /\ reports' = reports + 1
         /\ UNCHANGED <<reconnectAttempts, timers, lastDelay>>
    ELSE /\ reconnectAttempts' = reconnectAttempts + 1
         /\ timers' = timers + 1
         /\ lastDelay' = ReconnectDelay(reconnectAttempts')
         /\ UNCHANGED reports

\* ws.on('error'): the transport fails while connecting or open, or the
\* handshake was aborted by close(); 'close' follows
SockError(s) ==
    /\ sock[s] \in {"connecting", "open", "aborted"}
    /\ sock' = [sock EXCEPT ![s] = "closing"]
    /\ Reconnect
    /\ UNCHANGED <<ws, nSock, messageBuffer, nSent, written, lost, closeCalled>>
    /\ UNCHANGED <<poolVars, rateVars, backoffVars, proxyVars>>

\* ws.on('close'): the connection ended, after an error or by a close frame
SockClose(s) ==
    /\ sock[s] \in {"open", "closing"}
    /\ sock' = [sock EXCEPT ![s] = "closed"]
    /\ Reconnect
    /\ UNCHANGED <<ws, nSock, messageBuffer, nSent, written, lost, closeCalled>>
    /\ UNCHANGED <<poolVars, rateVars, backoffVars, proxyVars>>

\* reconnect() after its sleep: await this.connect(sessionId, token)
TimerFire ==
    /\ timers > 0
    /\ timers' = timers - 1
    /\ ConnectNow
    /\ sock' = [sock EXCEPT ![nSock + 1] = "connecting"]
    /\ UNCHANGED <<messageBuffer, reconnectAttempts, nSent, written, lost,
                   reports, closeCalled>>
    /\ UNCHANGED lastDelay
    /\ UNCHANGED <<poolVars, rateVars, backoffVars, proxyVars>>

\* close(): this.ws?.close().  WebSocket.close aborts a handshake in
\* progress ('error' then 'close') and starts the closing handshake of an
\* open socket ('close'); it does nothing on a closing or closed socket.
UserClose ==
    /\ ~closeCalled
    /\ closeCalled' = TRUE
    /\ sock' = IF ws = 0 THEN sock
               ELSE IF sock[ws] = "connecting" THEN [sock EXCEPT ![ws] = "aborted"]
               ELSE IF sock[ws] = "open" THEN [sock EXCEPT ![ws] = "closing"]
               ELSE sock
    /\ UNCHANGED <<ws, nSock, messageBuffer, reconnectAttempts, timers, nSent,
                   written, lost, reports>>
    /\ UNCHANGED lastDelay
    /\ UNCHANGED <<poolVars, rateVars, backoffVars, proxyVars>>

StreamNext ==
    \/ UserConnect
    \/ Send
    \/ \E s \in SockIds : SockOpen(s)
    \/ \E s \in SockIds : SockError(s)
    \/ \E s \in SockIds : SockClose(s)
    \/ TimerFire
    \/ UserClose

\* ------------------------------------------------------------------------
\* RateLimitHandler
\* ------------------------------------------------------------------------
\* shouldThrottle: this.resetTimes.set(endpoint, now + 60000)
WindowMs == 60000
\* first value of Date.now() and the step of the clock, in ms
StartTime == 1000000
TickMs == 30000
\* number of clock steps
MaxTicks == 3
\* recordRequest calls allowed beyond an endpoint's limit
MaxOver == 1

\* An endpoint is the sequence of its path segments: "/api/compile" is
\* <<"api", "compile">>.  endpoint.includes('/x') holds when a segment
\* starts with x; the segments used here are no prefixes of one another.
Includes(endpoint, segment) == \E i \in 1..Len(endpoint) : endpoint[i] = segment

\* Endpoints whose requests are counted
RateKeys == { <<"api", "compile">>, <<"v1", "code", "sessions">> }

\* getRateLimit(endpoint)
GetRateLimit(endpoint) ==
    IF Includes(endpoint, "messages") THEN 30
    ELSE IF Includes(endpoint, "sessions") THEN 10
    ELSE IF Includes(endpoint, "compile") THEN 5
    ELSE 50

\* A missing map entry reads as 0: every read is `get(endpoint) || 0`
RateInit ==
    /\ requestCounts = [e \in RateKeys |-> 0]
    /\ resetTimes = [e \in RateKeys |-> 0]
    /\ now = StartTime
    /\ lastThrottle = <<>>
    /\ winEnd = [e \in RateKeys |-> 0]
    /\ winCount = [e \in RateKeys |-> 0]
    /\ limitCalls = <<>>

\* shouldThrottle: if (now > resetTime)
WindowExpired(e) == now > resetTimes[e]

\* Mutant of ThrottleCheck: an expired window resets the count of every key
ThrottleCheck_ResetAll(e) ==
    /\ requestCounts' = IF WindowExpired(e)
                        THEN [f \in RateKeys |-> 0]
                        ELSE requestCounts
    /\ resetTimes' = IF WindowExpired(e)
                     THEN [resetTimes EXCEPT ![e] = now + WindowMs]
                     ELSE resetTimes
    /\ lastThrottle' = <<e, requestCounts'[e] >= GetRateLimit(e)>>
    /\ IF now > winEnd[e]
       THEN /\ winEnd' = [winEnd EXCEPT ![e] = now + WindowMs]
            /\ winCount' = [winCount EXCEPT ![e] = 0]
       ELSE UNCHANGED <<winEnd, winCount>>
    /\ UNCHANGED <<now, limitCalls>>

\* shouldThrottle(endpoint): what it does to the handler
ThrottleCheck(e) ==
    /\ requestCounts' = IF WindowExpired(e)
                        THEN [requestCounts EXCEPT ![e] = 0]
                        ELSE requestCounts
    /\ resetTimes' = IF WindowExpired(e)
                     THEN [resetTimes EXCEPT ![e] = now + WindowMs]
                     ELSE resetTimes
    /\ lastThrottle' = <<e, requestCounts'[e] >= GetRateLimit(e)>>
    /\ IF now > winEnd[e]
       THEN /\ winEnd' = [winEnd EXCEPT ![e] = now + WindowMs]
            /\ winCount' = [winCount EXCEPT ![e] = 0]
       ELSE UNCHANGED <<winEnd, winCount>>
    /\ UNCHANGED <<now, limitCalls>>

\* shouldThrottle(endpoint)
ShouldThrottle(e) ==
    /\ ThrottleCheck(e)
    /\ UNCHANGED <<poolVars, streamVars, backoffVars, proxyVars>>

\* recordRequest(endpoint): what it does to the handler
RecordCount(e) ==
    /\ requestCounts' = [requestCounts EXCEPT ![e] = requestCounts[e] + 1]
    /\ lastThrottle' = <<>>
    /\ IF now > winEnd[e]
       THEN /\ winEnd' = [winEnd EXCEPT ![e] = now + WindowMs]
            /\ winCount' = [winCount EXCEPT ![e] = 1]
       ELSE /\ winCount' = [winCount EXCEPT
                              ![e] = IF winCount[e] < GetRateLimit(e)
                                     THEN winCount[e] + 1
                                     ELSE winCount[e]]
            /\ UNCHANGED winEnd
    /\ UNCHANGED <<resetTimes, now, limitCalls>>

\* recordRequest(endpoint)
RecordRequest(e) ==
    /\ requestCounts[e] < GetRateLimit(e) + MaxOver
    /\ RecordCount(e)
    /\ UNCHANGED <<poolVars, streamVars, backoffVars, proxyVars>>

\* Time passes
Tick ==
    /\ now < StartTime + MaxTicks * TickMs
    /\ now' = now + TickMs
    /\ lastThrottle' = <<>>
    /\ UNCHANGED <<requestCounts, resetTimes, winEnd, winCount, limitCalls>>
    /\ UNCHANGED <<poolVars, streamVars, backoffVars, proxyVars>>

RateNext ==
    \/ \E e \in RateKeys : ShouldThrottle(e)
    \/ \E e \in RateKeys : RecordRequest(e)
    \/ Tick

\* ------------------------------------------------------------------------
\* RateLimitHandler.getRateLimit on its own
\* ------------------------------------------------------------------------
\* longest endpoint path, in segments
MaxSegments == 2
\* getRateLimit calls kept in limitCalls
MaxLimitCalls == 2

\* Path segments endpoints are made of
Segments == {"v1", "code", "messages", "sessions", "compile"}

\* Endpoints getRateLimit is called with
Endpoints == UNION {[1..n -> Segments] : n \in 1..MaxSegments}

\* A call of getRateLimit(endpoint); the handler's state is not read
CallGetRateLimit(endpoint) ==
    /\ limitCalls' =
          LET call == [endpoint |-> endpoint, limit |-> GetRateLimit(endpoint)]
              all == Append(limitCalls, call) IN
          IF Len(all) > MaxLimitCalls THEN Tail(all) ELSE all
    /\ UNCHANGED <<requestCounts, resetTimes, now, lastThrottle, winEnd, winCount>>
    /\ UNCHANGED <<poolVars, streamVars, backoffVars, proxyVars>>

LimitNext == \E endpoint \in Endpoints : CallGetRateLimit(endpoint)

\* ------------------------------------------------------------------------
\* RateLimitHandler.handleRateLimitResponse
\* ------------------------------------------------------------------------
\* number of handleRateLimitResponse calls; call k is the k-th one made
NumCalls == 4
Calls == 1..NumCalls

\* let waitTime = 60000
DefaultWaitMs == 60000
\* Math.min(this.backoffMultiplier * 2, 8)
MaxBackoff == 8

\* A header value is the sequence of its decimal digits: '60' is <<6, 0>>.
\* A header that is missing (get returns undefined) and an empty header are
\* both falsy and both <<>>.
\* parseInt(value) of a string of decimal digits
RECURSIVE ParseInt(_)
ParseInt(digits) ==
    IF digits = <<>> THEN 0
    ELSE 10 * ParseInt(SubSeq(digits, 1, Len(digits) - 1)) + digits[Len(digits)]

\* Timestamps 30 s after and 30 s before StartTime
ResetLater == <<1, 0, 3, 0, 0, 0, 0>>
ResetEarlier == <<9, 7, 0, 0, 0, 0>>
\* response.headers: Retry-After (seconds) and X-RateLimit-Reset (ms timestamp)
Responses ==
    { [retryAfter |-> <<>>,  reset |-> <<>>],
      [retryAfter |-> <<2>>, reset |-> <<>>],
      [retryAfter |-> <<>>,  reset |-> ResetLater],
      [retryAfter |-> <<>>,  reset |-> ResetEarlier],
      [retryAfter |-> <<2>>, reset |-> ResetLater] }
NoResponse == [retryAfter |-> <<>>, reset |-> <<>>]

BackoffInit ==
    /\ backoffMultiplier = 1
    /\ callPc = [c \in Calls |-> "idle"]
    /\ callResp = [c \in Calls |-> NoResponse]
    /\ callMult = [c \in Calls |-> 0]
    /\ callWait = [c \in Calls |-> 0]
    /\ callAfterSuccess = [c \in Calls |-> FALSE]
    /\ successSince = FALSE

\* Mutant of BaseWait: the reset timestamp is looked at first
BaseWait_ResetFirst(resp) ==
    IF resp.reset # <<>> THEN ParseInt(resp.reset) - now
    ELSE IF resp.retryAfter # <<>> THEN ParseInt(resp.retryAfter) * 1000
    ELSE DefaultWaitMs

\* handleRateLimitResponse: waitTime before the backoff is applied
BaseWait(resp) ==
    IF resp.retryAfter # <<>> THEN ParseInt(resp.retryAfter) * 1000
    ELSE IF resp.reset # <<>> THEN ParseInt(resp.reset) - now
    ELSE DefaultWaitMs

\* Mutant of NextMultiplier: the multiplier is doubled without a ceiling
NextMultiplier_NoCap(m) == m * 2

\* this.backoffMultiplier = Math.min(this.backoffMultiplier * 2, 8)
NextMultiplier(m) == IF m * 2 < MaxBackoff THEN m * 2 ELSE MaxBackoff

\* handleRateLimitResponse(response) up to its await: compute waitTime,
\* multiply it, double the multiplier, start the sleep
HandleStart(c, resp) ==
    /\ callPc[c] = "idle"
    /\ \A k \in Calls : k < c => callPc[k] # "idle"
    /\ callPc' = [callPc EXCEPT ![c] = "waiting"]
    /\ callResp' = [callResp EXCEPT ![c] = resp]
    /\ callWait' = [callWait EXCEPT ![c] = BaseWait(resp) * backoffMultiplier]
    /\ callMult' = [callMult EXCEPT ![c] = backoffMultiplier]
    /\ backoffMultiplier' = NextMultiplier(backoffMultiplier)
    /\ callAfterSuccess' = [callAfterSuccess EXCEPT ![c] = successSince]
    /\ successSince' = FALSE
    /\ UNCHANGED <<poolVars, streamVars, rateVars, proxyVars>>

\* handleRateLimitResponse after its sleep: this.backoffMultiplier = 1
HandleFinish(c) ==
    /\ callPc[c] = "waiting"
    /\ callPc' = [callPc EXCEPT ![c] = "done"]
    /\ backoffMultiplier' = 1
    /\ UNCHANGED <<callResp, callMult, callWait, callAfterSuccess, successSince>>
    /\ UNCHANGED <<poolVars, streamVars, rateVars, proxyVars>>

\* A request of the caller succeeds; the handler is not told
RequestSucceeds ==
    /\ ~successSince
    /\ \E c \in Calls : callPc[c] = "done"
    /\ \A c \in Calls : callPc[c] # "waiting"
    /\ successSince' = TRUE
    /\ UNCHANGED <<backoffMultiplier, callPc, callResp, callMult, callWait,
                   callAfterSuccess>>
    /\ UNCHANGED <<poolVars, streamVars, rateVars, proxyVars>>

BackoffNext ==
    \/ \E c \in Calls, resp \in Responses : HandleStart(c, resp)
    \/ \E c \in Calls : HandleFinish(c)
    \/ RequestSucceeds

\* ------------------------------------------------------------------------
\* ClaudeCodeProxy.request
\* ------------------------------------------------------------------------
\* number of request() calls
NumRequests == 6
Requests == 1..NumRequests

\* Endpoints request() is called with: the one whose limit is smallest, so
\* that NumRequests calls reach it
ProxyKeys == {e \in RateKeys : \A f \in RateKeys : GetRateLimit(e) <= GetRateLimit(f)}

ProxyInit ==
    /\ reqPc = [r \in Requests |-> "idle"]
    /\ reqEndpoint = [r \in Requests |-> <<>>]
    /\ proxySent = [e \in RateKeys |-> 0]
    /\ proxyRecorded = [e \in RateKeys |-> 0]
    /\ reqThrottled = [r \in Requests |-> FALSE]
    /\ proxyPassedSent = [e \in RateKeys |-> 0]

\* request(endpoint) up to its first await: shouldThrottle(endpoint); when
\* it returns true handleRateLimitResponse starts its sleep, otherwise
\* executeWithSession is called.  Calls are numbered in the order they are made.
ProxyRequest(r, e) ==
    /\ reqPc[r] = "idle"
    /\ \A k \in Requests : k < r => reqPc[k] # "idle"
    /\ reqEndpoint' = [reqEndpoint EXCEPT ![r] = e]
    /\ ThrottleCheck(e)
    /\ reqThrottled' = [reqThrottled EXCEPT ![r] = lastThrottle'[2]]
    /\ IF lastThrottle'[2]
       THEN /\ reqPc' = [reqPc EXCEPT ![r] = "waiting"]
            /\ backoffMultiplier' = NextMultiplier(backoffMultiplier)
       ELSE /\ reqPc' = [reqPc EXCEPT ![r] = "admitted"]
            /\ UNCHANGED backoffMultiplier
    /\ UNCHANGED <<callPc, callResp, callMult, callWait, callAfterSuccess,
                   successSince>>
    /\ UNCHANGED <<proxySent, proxyRecorded, proxyPassedSent>>
    /\ UNCHANGED <<poolVars, streamVars>>

\* handleRateLimitResponse returns after its sleep; executeWithSession is
\* called without a second shouldThrottle
ProxyWake(r) ==
    /\ reqPc[r] = "waiting"
    /\ reqPc' = [reqPc EXCEPT ![r] = "admitted"]
    /\ backoffMultiplier' = 1
    /\ UNCHANGED <<callPc, callResp, callMult, callWait, callAfterSuccess,
                   successSince>>
    /\ UNCHANGED <<reqEndpoint, proxySent, proxyRecorded, reqThrottled,
                   proxyPassedSent>>
    /\ UNCHANGED <<poolVars, streamVars, rateVars>>

\* The pool runs the closure; newPage or extractFromBrowser throws, nothing
\* is sent
ProxyFailBeforeSend(r) ==
    /\ reqPc[r] = "admitted"
    /\ reqPc' = [reqPc EXCEPT ![r] = "failed"]
    /\ UNCHANGED <<reqEndpoint, proxySent, proxyRecorded, reqThrottled,
                   proxyPassedSent>>
    /\ UNCHANGED <<poolVars, streamVars, rateVars, backoffVars>>

\* The pool runs the closure up to makeAPIRequest: fetch(url, ...) is called
ProxySend(r) ==
    /\ reqPc[r] = "admitted"
    /\ reqPc' = [reqPc EXCEPT ![r] = "sent"]
    /\ proxySent' = [proxySent EXCEPT ![reqEndpoint[r]] = @ + 1]
    /\ proxyPassedSent' = IF reqThrottled[r] THEN proxyPassedSent
                          ELSE [proxyPassedSent EXCEPT ![reqEndpoint[r]] = @ + 1]
    /\ UNCHANGED <<reqEndpoint, proxyRecorded, reqThrottled>>
    /\ UNCHANGED <<poolVars, streamVars, rateVars, backoffVars>>

\* The response arrives.  response.ok: makeAPIRequest returns and
\* recordRequest(endpoint) is called; otherwise makeAPIRequest throws and
\* the closure leaves through its finally block
ProxyResponse(r, ok) ==
    /\ reqPc[r] = "sent"
    /\ IF ok
       THEN /\ RecordCount(reqEndpoint[r])
            /\ proxyRecorded' = [proxyRecorded EXCEPT ![reqEndpoint[r]] = @ + 1]
            /\ reqPc' = [reqPc EXCEPT ![r] = "done"]
       ELSE /\ reqPc' = [reqPc EXCEPT ![r] = "failed"]
            /\ UNCHANGED rateVars
            /\ UNCHANGED proxyRecorded
    /\ UNCHANGED <<reqEndpoint, proxySent, reqThrottled, proxyPassedSent>>
    /\ UNCHANGED <<poolVars, streamVars, backoffVars>>

ProxyNext ==
    \/ \E r \in Requests, e \in ProxyKeys : ProxyRequest(r, e)
    \/ \E r \in Requests : ProxyWake(r)
    \/ \E r \in Requests : ProxyFailBeforeSend(r)
    \/ \E r \in Requests : ProxySend(r)
    \/ \E r \in Requests, ok \in BOOLEAN : ProxyResponse(r, ok)

\* ------------------------------------------------------------------------
\* Specifications
\* ------------------------------------------------------------------------
Init == PoolInit /\ StreamInit /\ RateInit /\ BackoffInit /\ ProxyInit

PoolSpec == Init /\ [][PoolNext]_vars

\* The pool used as intended: no release by non-holders and no closeAll()
PoolLiveNext ==
    \/ InitializeStep
    \/ \E t \in Tasks : Submit(t)
    \/ \E t \in Tasks : PollAcquire(t)
    \/ \E t \in Tasks : BodyReturn(t)
    \/ \E t \in Tasks : BodyThrow(t)
    \/ \E t \in Tasks : Settle(t)
    \/ \E c \in Clients : ClientAcquire(c)
    \/ \E c \in Clients : ClientPoll(c)
    \/ \E c \in Clients : ClientRelease(c)

\* Scheduling of the event loop: initialize() finishes, every poll timer
\* fires again and again, every task body ends, every settled closure is
\* processed, every holder releases.  A poll that finds no session just
\* sleeps again, so polls get weak fairness only.
PoolFairness ==
    /\ WF_vars(InitializeStep)
    /\ \A t \in Tasks : WF_vars(PollAcquire(t))
    /\ \A t \in Tasks : WF_vars(BodyReturn(t) \/ BodyThrow(t))
    /\ \A t \in Tasks : WF_vars(Settle(t))
    /\ \A c \in Clients : WF_vars(ClientPoll(c))
    /\ \A c \in Clients : WF_vars(ClientRelease(c))

PoolLiveSpec == Init /\ [][PoolLiveNext]_vars /\ PoolFairness

\* executeWithSession calls only, with the event loop's scheduling: a
\* started poll, body or settlement is run at some time; submissions are up
\* to the caller
TaskNext ==
    \/ InitializeStep
    \/ \E t \in Tasks : Submit(t)
    \/ \E t \in Tasks : PollAcquire(t)
    \/ \E t \in Tasks : BodyReturn(t)
    \/ \E t \in Tasks : BodyThrow(t)
    \/ \E t \in Tasks : Settle(t)

TaskFairness ==
    /\ WF_vars(InitializeStep)
    /\ \A t \in Tasks : WF_vars(PollAcquire(t))
    /\ \A t \in Tasks : WF_vars(BodyReturn(t) \/ BodyThrow(t))
    /\ \A t \in Tasks : WF_vars(Settle(t))

TaskLiveSpec == Init /\ [][TaskNext]_vars /\ TaskFairness

\* ------------------------------------------------------------------------
\* The dispatcher alone: executeWithSession calls on a pool that has no
\* direct callers and is not closed
\* ------------------------------------------------------------------------
\* number of executeWithSession calls
NumDispatchTasks == 5
DispatchTasks == 1..NumDispatchTasks

DispatchInit ==
    /\ sessions = [i \in SessionIds |-> "absent"]
    /\ availableSessions = <<>>
    /\ busySessions = {}
    /\ initIdx = 0
    /\ closePc = "idle"
    /\ closeLeft = {}
    /\ queue = <<>>
    /\ pendingCount = 0
    /\ taskPc = [t \in DispatchTasks |-> "new"]
    /\ clientPc = [c \in Clients |-> "idle"]
    /\ held = [h \in DispatchTasks |-> NoSession]
    /\ strayReleases = 0
    /\ initCalls = 1
    /\ maxSessions = MaxSessions
    /\ maxConcurrency = MaxConcurrency
    /\ sessionPool = "null"
    /\ batchPc = "idle"
    /\ batchTasks = 0
    /\ batchMaxConcurrency = 0
    /\ StreamInit /\ RateInit /\ BackoffInit /\ ProxyInit

DispatchNext ==
    \/ InitializeStep
    \/ \E t \in DispatchTasks : Submit(t)
    \/ \E t \in DispatchTasks : PollAcquire(t)
    \/ \E t \in DispatchTasks : BodyReturn(t)
    \/ \E t \in DispatchTasks : BodyThrow(t)
    \/ \E t \in DispatchTasks : Settle(t)

DispatchSpec == DispatchInit /\ [][DispatchNext]_vars

\* The end-to-end scenario: every task is submitted and every body returns
E2ENext ==
    \/ InitializeStep
    \/ \E t \in DispatchTasks : Submit(t)
    \/ \E t \in DispatchTasks : PollAcquire(t)
    \/ \E t \in DispatchTasks : BodyReturn(t)
    \/ \E t \in DispatchTasks : Settle(t)

E2EFairness ==
    /\ WF_vars(InitializeStep)
    /\ \A t \in DispatchTasks : WF_vars(Submit(t))
    /\ \A t \in DispatchTasks : WF_vars(PollAcquire(t))
    /\ \A t \in DispatchTasks : WF_vars(BodyReturn(t))
    /\ \A t \in DispatchTasks : WF_vars(Settle(t))

E2ESpec == DispatchInit /\ [][E2ENext]_vars /\ E2EFairness

\* The pool with direct callers and a caller that initializes it again
ReinitNext ==
    \/ InitializeStep
    \/ InitializeAgain
    \/ \E c \in Clients : ClientAcquire(c)
    \/ \E c \in Clients : ClientPoll(c)
    \/ \E c \in Clients : ClientRelease(c)

ReinitSpec == Init /\ [][ReinitNext]_vars

StreamSpec == Init /\ [][StreamNext]_vars

RateSpec == Init /\ [][RateNext]_vars

BackoffSpec == Init /\ [][BackoffNext]_vars

LimitSpec == Init /\ [][LimitNext]_vars

ProxySpec == Init /\ [][ProxyNext]_vars

\* The server after its constructor: no pool yet
ServerInit ==
    /\ sessions = [i \in 0..(ConfigMaxSessions - 1) |-> "absent"]
    /\ availableSessions = <<>>
    /\ busySessions = {}
    /\ initIdx = 0
    /\ closePc = "idle"
    /\ closeLeft = {}
    /\ queue = <<>>
    /\ pendingCount = 0
    /\ taskPc = [t \in BatchTasks |-> "new"]
    /\ clientPc = [c \in Clients |-> "idle"]
    /\ held = [h \in BatchTasks |-> NoSession]
    /\ strayReleases = 0
    /\ initCalls = 0
    /\ maxSessions = 0
    /\ maxConcurrency = 0
    /\ sessionPool = "null"
    /\ batchPc = "idle"
    /\ batchTasks = 0
    /\ batchMaxConcurrency = 0
    /\ StreamInit /\ RateInit /\ BackoffInit /\ ProxyInit

\* The MCP server: handleInitialize and one batch_process call
ServerSpec == ServerInit /\ [][ServerNext]_vars

\* number of handleRateLimitResponse calls made next to the other methods
NumHandlerCalls == 2
HandlerCalls == 1..NumHandlerCalls

\* One RateLimitHandler whose callers use all of its methods,
\* shouldThrottle, recordRequest and handleRateLimitResponse, within one
\* reading of the clock
HandlerNext ==
    \/ \E e \in RateKeys : ShouldThrottle(e)
    \/ \E e \in RateKeys : RecordRequest(e)
    \/ \E c \in HandlerCalls : HandleStart(c, NoResponse)
    \/ \E c \in HandlerCalls : HandleFinish(c)

HandlerSpec == Init /\ [][HandlerNext]_vars

\* ------------------------------------------------------------------------
\* Properties of ClaudeSessionPool
\* ------------------------------------------------------------------------
PoolReady == initIdx = MaxSessions /\ closePc = "idle"

\* C1 (as claimed): on an initialized pool no session id is held by two
\* acquirers (tasks or direct callers) at the same time.
C1_Exclusivity ==
    PoolReady =>
        \A h1, h2 \in Holders :
            (h1 # h2 /\ held[h1] # NoSession) => held[h1] # held[h2]

\* C2 (as claimed): after initialize and before closeAll, availableSessions
\* and busySessions are disjoint, availableSessions has no id twice, and
\* together they hold exactly the MaxSessions ids created by initialize.
C2_Conservation ==
    PoolReady =>
        /\ Range(availableSessions) \cap busySessions = {}
        /\ Cardinality(Range(availableSessions)) = Len(availableSessions)
        /\ Range(availableSessions) \cup busySessions = SessionIds
        /\ Len(availableSessions) + Cardinality(busySessions) = MaxSessions

\* Tasks admitted by the queue that have not yet released their session
Admitted == {t \in Tasks : taskPc[t] \in {"acquiring", "running"}}

\* C3: the number of tasks that were admitted (acquiring or running their
\* body) and have not yet released never exceeds maxConcurrency.
C3_ConcurrencyBound == Cardinality(Admitted) <= MaxConcurrency

\* C3 witness: maxConcurrency tasks are admitted while another one queues
C3_Witness == Cardinality(Admitted) = MaxConcurrency /\ queue # <<>>

\* C4: when a task body ends (by throwing or returning) the session it held
\* is pushed back to availableSessions and removed from busySessions in that
\* same step, and the promise is rejected only after that step.
C4_ReleaseOnFailure ==
    [][\A t \in Tasks :
         /\ (taskPc[t] = "running" /\ taskPc'[t] # "running") =>
                /\ held[t] \in Range(availableSessions')
                /\ held[t] \notin busySessions'
                /\ held'[t] = NoSession
         /\ (taskPc[t] # "rejected" /\ taskPc'[t] = "rejected") =>
                /\ taskPc[t] = "thrown"
                /\ held[t] = NoSession]_vars

\* C4 witness: a task body threw and its promise was rejected
C4_Witness == \E t \in Tasks : taskPc[t] = "rejected" /\ held[t] = NoSession

\* ------------------------------------------------------------------------
\* Properties of CodeStreamHandler
\* ------------------------------------------------------------------------
\* C5 (as claimed): a send() made while this.ws is not open writes nothing
\* and appends the message to messageBuffer; when a socket becomes open, all
\* buffered messages are written to the transport in the order sent and
\* messageBuffer is empty afterwards.
C5_StreamBuffering ==
    [][/\ (nSent' = nSent + 1 /\ ~IsOpen(ws)) =>
            /\ written' = written
            /\ lost' = lost
            /\ messageBuffer' = Append(messageBuffer, nSent')
       /\ (\E s \in SockIds : sock[s] = "connecting" /\ sock'[s] = "open") =>
            /\ written' = written \o messageBuffer
            /\ messageBuffer' = <<>>]_vars

\* C6 (as claimed): without an explicit close(), every message passed to
\* send() has been written to an open transport or is still in messageBuffer.
C6_NoMessageLost ==
    ~closeCalled =>
        \A m \in 1..nSent : m \in Range(written) \cup Range(messageBuffer)

\* C7 (as claimed): once the reconnect ceiling was hit (reconnect() found
\* reconnectAttempts >= 5 and gave up), no further connection is attempted.
C7_ReconnectCeiling == [][reports > 0 => nSock' = nSock]_vars

\* C8 (as claimed): the terminal failure is reported once, not once per
\* error or close event.
C8_TerminalReportOnce == reports <= 1

\* C9 (as claimed): after close() no reconnect is scheduled and no new
\* connection is opened.
C9_CloseSuppressesReconnect ==
    [][closeCalled => (timers' <= timers /\ nSock' = nSock)]_vars

\* C22: messages are written to the transport in the order they were passed
\* to send (message k is the k-th sent), and a message written directly
\* never overtakes one that is still buffered.
C22_OutboundOrder ==
    /\ \A i, j \in 1..Len(written) : i < j => written[i] < written[j]
    /\ \A i, j \in 1..Len(messageBuffer) : i < j => messageBuffer[i] < messageBuffer[j]
    /\ \A i \in 1..Len(written) : \A j \in 1..Len(messageBuffer) :
          written[i] < messageBuffer[j]

\* C22 witness: after a reconnection, two messages have been written
C22_Witness == Len(written) >= 2 /\ nSock >= 2 /\ reconnectAttempts = 0

\* C23: every open of a socket sets reconnectAttempts to zero, every
\* reconnect that is not refused counts one attempt, and a reconnect is
\* refused only when 5 attempts have been counted since.
C23_OpenResetsAttempts ==
    [][/\ (\E s \in SockIds : sock[s] = "connecting" /\ sock'[s] = "open")
            => reconnectAttempts' = 0
       /\ timers' > timers => reconnectAttempts' = reconnectAttempts + 1
       /\ reports' > reports => reconnectAttempts = MaxReconnectAttempts]_vars

\* C23 witness: a socket made by a reconnect is open, nothing else is
\* pending and the counter is zero
C23_Witness ==
    /\ \E s \in SockIds : s >= 2 /\ sock[s] = "open"
    /\ timers = 0
    /\ reconnectAttempts = 0

\* C28 (as claimed): at most one reconnect timer is pending and at most one
\* socket is connecting or open.
C28_SingleConnection ==
    /\ timers <= 1
    /\ Cardinality({s \in SockIds : sock[s] \in {"connecting", "open"}}) <= 1

\* C29: a reconnect that sets a timer waits min(1000 * 2^a, 30000) ms, a
\* being reconnectAttempts after the increment: one of 2000, 4000, 8000,
\* 16000 and 30000 ms, never more than 30000 ms, and not less than the
\* delay of the reconnect before it when no open has reset the counter
\* in between.
C29_ReconnectDelay ==
    [][timers' > timers =>
          /\ \/ /\ reconnectAttempts' = 1 /\ lastDelay' = 2000
             \/ /\ reconnectAttempts' = 2 /\ lastDelay' = 4000
             \/ /\ reconnectAttempts' = 3 /\ lastDelay' = 8000
             \/ /\ reconnectAttempts' = 4 /\ lastDelay' = 16000
             \/ /\ reconnectAttempts' = 5 /\ lastDelay' = 30000
          /\ lastDelay' <= 30000
          /\ reconnectAttempts > 0 => lastDelay' >= lastDelay]_vars

\* C29 witness: the fifth attempt in a row has set its timer with the capped delay
C29_Witness == reconnectAttempts = 5 /\ lastDelay = 30000 /\ timers > 0

\* C33: reconnectAttempts is always between 0 and 5, whatever the order of
\* the error, close and open events and of the reconnect timers.
C33_AttemptsRange == 0 <= reconnectAttempts /\ reconnectAttempts <= 5

\* C33 witness: a reconnect was refused with the counter at 5 while a
\* timer of an earlier reconnect is still pending
C33_Witness == reconnectAttempts = 5 /\ reports > 0 /\ timers > 0

\* ------------------------------------------------------------------------
\* Properties of RateLimitHandler
\* ------------------------------------------------------------------------
\* C10 (as claimed): shouldThrottle(K) returns true when limit-many
\* recordRequest(K) calls were made in the caller's current window (whether
\* or not a shouldThrottle(K) call opened it), and returns false when it is
\* the first call after that window has elapsed.
C10_RateWindowReset ==
    lastThrottle # <<>> =>
        LET e == lastThrottle[1]
            result == lastThrottle[2] IN
        /\ winCount[e] >= GetRateLimit(e) => result
        /\ (winEnd[e] = now + WindowMs /\ winCount[e] = 0) => ~result

\* C18 (as claimed): a recordRequest(K) call made when K's window has expired
\* or was never opened starts a new window ending at now + window length
\* with count 1.
C18_RecordResetsExpired ==
    [][\A e \in RateKeys :
          (/\ now' = now
           /\ lastThrottle' = <<>>
           /\ requestCounts'[e] # requestCounts[e]
           /\ now > resetTimes[e])
          => /\ resetTimes'[e] = now + WindowMs
             /\ requestCounts'[e] = 1]_vars

\* C19 (as claimed): shouldThrottle(K) called at exactly the window end
\* resets K's count to zero, opens a new window ending at now + 60000 and
\* returns false.
C19_ExpiredAtWindowEnd ==
    [][\A e \in RateKeys :
          (/\ lastThrottle' # <<>>
           /\ lastThrottle'[1] = e
           /\ resetTimes[e] = now)
          => /\ requestCounts'[e] = 0
             /\ resetTimes'[e] = now + WindowMs
             /\ ~lastThrottle'[2]]_vars

\* C21 (as claimed): getRateLimit gives one key one limit, a message-send
\* key a smaller limit than a session-creation key, and a session-creation
\* key a smaller limit than a key of the default class.
C21_LimitOrder ==
    \A i, j \in 1..Len(limitCalls) :
        LET a == limitCalls[i]
            b == limitCalls[j]
            messageSend(k) == Includes(k, "messages")
            sessionCreation(k) == Includes(k, "sessions") /\ ~Includes(k, "messages")
            catchAll(k) == /\ ~Includes(k, "messages")
                           /\ ~Includes(k, "sessions")
                           /\ ~Includes(k, "compile") IN
        /\ a.endpoint = b.endpoint => a.limit = b.limit
        /\ (messageSend(a.endpoint) /\ sessionCreation(b.endpoint)) => a.limit < b.limit
        /\ (sessionCreation(a.endpoint) /\ catchAll(b.endpoint)) => a.limit < b.limit

\* C35: a shouldThrottle(K) or recordRequest(K) call leaves the count and
\* the window end of every key other than K as they were; a count goes up
\* only by one and only in a recordRequest call; shouldThrottle and
\* handleRateLimitResponse raise no count, and handleRateLimitResponse
\* touches neither counts nor window ends.
C35_PerKeyFrame ==
    [][\A e \in RateKeys :
          /\ (lastThrottle' # <<>> /\ lastThrottle'[1] # e) =>
                /\ requestCounts'[e] = requestCounts[e]
                /\ resetTimes'[e] = resetTimes[e]
          /\ lastThrottle' # <<>> => requestCounts'[e] <= requestCounts[e]
          /\ requestCounts'[e] > requestCounts[e] =>
                /\ requestCounts'[e] = requestCounts[e] + 1
                /\ backoffVars' = backoffVars
                /\ \A f \in RateKeys \ {e} :
                      /\ requestCounts'[f] = requestCounts[f]
                      /\ resetTimes'[f] = resetTimes[f]
          /\ backoffVars' # backoffVars =>
                /\ requestCounts' = requestCounts
                /\ resetTimes' = resetTimes]_vars

\* C35 witness: both keys have requests counted, the count of one key was
\* just reset by its shouldThrottle, and a handleRateLimitResponse call is
\* waiting
C35_Witness ==
    /\ lastThrottle # <<>>
    /\ requestCounts[lastThrottle[1]] = 0
    /\ \E f \in RateKeys : requestCounts[f] > 0 /\ resetTimes[f] > 0
    /\ \E c \in Calls : callPc[c] = "waiting"

\* ------------------------------------------------------------------------
\* Properties of RateLimitHandler.handleRateLimitResponse
\* ------------------------------------------------------------------------
\* C11 (as claimed): the first call, and a call made after a request
\* succeeded, waits 1x its hinted duration; every other call waits twice the
\* multiple of the call before it, capped at 8x (1x, 2x, 4x, 8x, 8x, ...).
C11_BackoffGrowth ==
    \A k \in Calls :
        callPc[k] # "idle" =>
            IF k = 1 \/ callAfterSuccess[k]
            THEN callMult[k] = 1
            ELSE callMult[k] = IF callMult[k - 1] >= 8 THEN 8
                               ELSE 2 * callMult[k - 1]

\* C20: the wait of a call, before the multiplier is applied, is the
\* Retry-After value when that hint is present (also when both hints are),
\* otherwise the X-RateLimit-Reset timestamp minus the current time,
\* otherwise 60000 ms.
C20_HintPriority ==
    \A c \in Calls : callPc[c] # "idle" =>
        LET retryAfter == callResp[c].retryAfter
            reset == callResp[c].reset IN
        /\ retryAfter # <<>> =>
              callWait[c] = ParseInt(retryAfter) * 1000 * callMult[c]
        /\ (retryAfter = <<>> /\ reset # <<>>) =>
              callWait[c] = (ParseInt(reset) - now) * callMult[c]
        /\ (retryAfter = <<>> /\ reset = <<>>) =>
              callWait[c] = DefaultWaitMs * callMult[c]

\* C20 witness: calls were made with both hints, with the reset hint only
\* and with no hint
C20_Witness ==
    /\ \E c \in Calls : /\ callPc[c] # "idle"
                        /\ callResp[c].retryAfter # <<>>
                        /\ callResp[c].reset # <<>>
    /\ \E c \in Calls : /\ callPc[c] # "idle"
                        /\ callResp[c].retryAfter = <<>>
                        /\ callResp[c].reset # <<>>
    /\ \E c \in Calls : /\ callPc[c] # "idle"
                        /\ callResp[c] = NoResponse

\* C30: backoffMultiplier is always one of 1, 2, 4 and 8, however the
\* handleRateLimitResponse calls overlap.
C30_MultiplierRange == backoffMultiplier \in {1, 2, 4, 8}

\* C30 witness: a call started when the multiplier was already 8, and the
\* multiplier is still 8
C30_Witness ==
    /\ backoffMultiplier = 8
    /\ \E c \in Calls : callPc[c] = "waiting" /\ callMult[c] = 8

\* C31 (as claimed): the multiplier goes back to 1 only in a step after
\* which no call is waiting, and a call that started while an earlier call
\* was waiting, and still is, was not given a smaller multiplier than it.
C31_NoResetWhilePending ==
    /\ [][(backoffMultiplier' = 1 /\ backoffMultiplier # 1) =>
             \A c \in Calls : callPc'[c] # "waiting"]_vars
    /\ [](\A k, c \in Calls :
             (k < c /\ callPc[k] = "waiting" /\ callPc[c] # "idle") =>
                 callMult[c] >= callMult[k])

\* C36 (as claimed): the waitTime a handleRateLimitResponse call sleeps for
\* is never negative.
C36_WaitNonNegative == \A c \in Calls : callPc[c] # "idle" => callWait[c] >= 0

\* ------------------------------------------------------------------------
\* Further properties of ClaudeSessionPool
\* ------------------------------------------------------------------------
\* C12 (as claimed): releaseSession(id) with id not in busySessions leaves
\* availableSessions and busySessions unchanged; so every step that pushes
\* an id onto availableSessions, apart from initialize, pushes an id that was
\* in busySessions.
C12_InvalidReleaseNoOp ==
    [][(initIdx' = initIdx /\ Len(availableSessions') > Len(availableSessions))
          => PopId(availableSessions') \in busySessions]_vars

\* C13 (as claimed): once closeAll() has completed, an acquireSession call
\* neither waits nor returns a session: no task that had not yet called it
\* starts acquiring or running, and no direct caller leaves "idle".
C13_AcquireAfterCloseFails ==
    [][closePc = "done" =>
          /\ \A t \in Tasks :
                taskPc[t] \in {"new", "queued"} =>
                    taskPc'[t] \notin {"acquiring", "running"}
          /\ \A c \in Clients :
                clientPc[c] = "idle" => clientPc'[c] = "idle"]_vars

\* C14 (as claimed): when every holder eventually releases, every caller
\* waiting in acquireSession eventually obtains a session.
C14_AcquireProgress ==
    /\ \A t \in Tasks : (taskPc[t] = "acquiring") ~> (taskPc[t] = "running")
    /\ \A c \in Clients : (clientPc[c] = "waiting") ~> (clientPc[c] = "holding")

\* a stands before b in the queue q
Before(q, a, b) ==
    \E i, j \in 1..Len(q) : i < j /\ q[i] = a /\ q[j] = b

\* C15: tasks are admitted in submission order: a task submitted while
\* another is queued is put behind it, and a queued task is not admitted
\* (and not overtaken in the queue) while a task stands before it.
C15_FifoAdmission ==
    [][\A a, b \in DispatchTasks :
         /\ (/\ taskPc[a] = "queued" /\ taskPc'[a] = "queued"
             /\ taskPc[b] = "new" /\ taskPc'[b] = "queued")
                => Before(queue', a, b)
         /\ Before(queue, a, b) =>
                /\ taskPc'[b] = "queued"
                /\ taskPc'[a] = "queued" => Before(queue', a, b)]_vars

\* C15 witness: two tasks are queued after an earlier task has settled
C15_Witness ==
    /\ Len(queue) >= 2
    /\ \E t \in DispatchTasks : taskPc[t] \in {"resolved", "rejected"}

\* C16 (as claimed): closing the pool waits for the tasks in flight, so the
\* context of a session is never closed while a task body runs with it.
C16_ShutdownDrains ==
    \A t \in Tasks : taskPc[t] = "running" => sessions[held[t]] = "live"

\* Task bodies that are running
Running == {t \in DispatchTasks : taskPc[t] = "running"}

\* C17: with 2 sessions, maxConcurrency 2 and 5 submitted tasks whose bodies
\* all return, every task is eventually resolved and never more than
\* maxConcurrency bodies run at once.
C17_EndToEnd ==
    /\ <>(\A t \in DispatchTasks : taskPc[t] = "resolved")
    /\ [](Cardinality(Running) <= MaxConcurrency)

\* C17 witness: all tasks are resolved and all sessions are back
C17_Witness ==
    /\ \A t \in DispatchTasks : taskPc[t] = "resolved"
    /\ Len(availableSessions) = MaxSessions

\* C24 (as claimed): a finished first initialize has made exactly
\* maxSessions sessions, all of them available or handed out; no id is ever
\* twice in availableSessions; and no initialize step replaces a context
\* that was already created.
C24_InitializeOnce ==
    /\ []((initCalls = 1 /\ initIdx = MaxSessions) =>
            /\ \A i \in SessionIds : sessions[i] = "live"
            /\ Range(availableSessions) \cup ({held[h] : h \in Holders} \ {NoSession})
                  = SessionIds)
    /\ [](\A i, j \in 1..Len(availableSessions) :
            i # j => availableSessions[i] # availableSessions[j])
    /\ [][initIdx' = initIdx + 1 => sessions[initIdx] = "absent"]_vars

\* C25: when the body of task t throws, only t's session goes back to the
\* pool and nothing else of the bookkeeping or of the other tasks changes;
\* a task is rejected only after its own body threw; and every submitted
\* task is settled at some time, whatever the other tasks do.
C25_FailureIsolation ==
    /\ [][\A t \in Tasks :
            (taskPc[t] = "running" /\ taskPc'[t] = "thrown") =>
                /\ \A u \in Tasks \ {t} :
                      taskPc'[u] = taskPc[u] /\ held'[u] = held[u]
                /\ held'[t] = NoSession
                /\ busySessions' = busySessions \ {held[t]}
                /\ availableSessions' = Append(availableSessions, held[t])
                /\ UNCHANGED <<sessions, queue, pendingCount>>]_vars
    /\ [][\A u \in Tasks :
            (taskPc'[u] = "rejected" /\ taskPc[u] # "rejected") =>
                taskPc[u] = "thrown"]_vars
    /\ \A u \in Tasks :
          (taskPc[u] \in {"queued", "acquiring", "running"})
             ~> (taskPc[u] \in {"resolved", "rejected"})

\* C25 witness: a body has thrown while another task is running with its session
C25_Witness ==
    \E t, u \in Tasks :
        /\ taskPc[t] = "thrown"
        /\ taskPc[u] = "running"
        /\ held[u] \in busySessions

\* C27 (as claimed): an acquisition takes the id that has been in
\* availableSessions the longest, its first element.
C27_ReleaseOrderReuse ==
    [][Len(availableSessions') = Len(availableSessions) - 1 =>
          availableSessions' = Tail(availableSessions)]_vars

\* C34 (as claimed): every id in availableSessions has a context in the
\* sessions map that is not closed.
C34_AvailableIsLive ==
    \A i \in 1..Len(availableSessions) : sessions[availableSessions[i]] = "live"

\* ------------------------------------------------------------------------
\* Properties of ClaudeCodeProxy.request
\* ------------------------------------------------------------------------
\* C26 (as claimed): every request that was sent and has been answered,
\* with success or with an error response, was recorded once.
C26_SentIsRecorded ==
    \A e \in RateKeys :
        proxyRecorded[e] + Cardinality({r \in Requests : reqPc[r] = "sent" /\ reqEndpoint[r] = e})
            = proxySent[e]

\* C32 (as claimed): the requests to one endpoint that passed the
\* shouldThrottle check and were sent in one window (the clock does not
\* move here, so all of them are in the window the first check opened) are
\* never more than the endpoint's limit.
C32_AdmittedWithinLimit ==
    \A e \in RateKeys :
        resetTimes[e] >= now => proxyPassedSent[e] <= GetRateLimit(e)

\* ------------------------------------------------------------------------
\* Properties of the batch_process tool
\* ------------------------------------------------------------------------
\* Batch tasks whose body is running
BatchRunning == {t \in BatchTasks : taskPc[t] = "running"}

\* C37 (as claimed): once a batch_process call with parallel = true has
\* taken its maxConcurrency argument (3 if absent), never more than that
\* many of its tasks run at the same time.
C37_BatchHonoursMaxConcurrency ==
    batchMaxConcurrency > 0 => Cardinality(BatchRunning) <= batchMaxConcurrency

====
